---- MODULE Spec2Model ----
(***************************************************************************)
(* The table-of-contents codec of yuque-rust (src/src/serde.rs, module     *)
(* toc_serde) together with the record types it reads and writes           *)
(* (src/src/lib.rs).                                                       *)
(*                                                                         *)
(* A wire string is modelled as the sequence of its lines (str::lines()).  *)
(* A line of block-style YAML is one of                                    *)
(*     "- key: scalar"   (k = "item",  opens a list element)               *)
(*     "  key: scalar"   (k = "field", continues the open element)         *)
(*     ""                (k = "blank")                                     *)
(*     "[]"              (k = "flowempty", the empty flow sequence)        *)
(*     anything the YAML scanner rejects (k = "junk").                     *)
(* A scalar keeps its style (quoted or plain) and its text; a text is a    *)
(* token that records what the characters spell: an integer literal, a     *)
(* boolean literal, an RFC 3339 timestamp, the empty text, or another word.*)
(* serde_yaml is modelled as its 0.9 series behaves: to_string writes no   *)
(* document-start marker and ends with a newline, an empty document reads  *)
(* as an empty sequence, and deserialize_str hands any scalar's text to    *)
(* the visitor.                                                            *)
(*                                                                         *)
(* The second half is the HTTP client (src/src/client.rs) with the         *)
(* operations of ReposClient and DocsClient (src/src/repos.rs,             *)
(* src/src/docs.rs): SpecClient runs one operation from the call to its    *)
(* return, with the network and the server as the environment.             *)
(***************************************************************************)
EXTENDS Integers, Sequences, FiniteSets, TLC

\* ------------------------------------------------------------------ bounds
MaxEntries == 2      \* longest in-memory entry list handed to the encoder
MaxShort == 2        \* longest free-form wire string drawn line by line
MaxStack == 3        \* nested calls the stack holds before it overflows

\* ------------------------------------------------------- program constants
MetaLineCount == 9   \* .take(9) / .skip(9)
\* An integer is kept as two limbs, n = hi * 65536 + lo with 0 <= lo < 65536,
\* so that values around 2^32 can be told apart; u32::MAX has hi = lo = 65535.
U32MaxHigh == 65535
\* the largest status code a u16 holds
U16Max == 65535

\* ------------------------------------------------------------------- texts
Text(t, n, s, o) == [t |-> t, n |-> n, s |-> s, o |-> o]
W(s) == Text("word", 0, s, 0)
EmptyStr == Text("empty", 0, "", 0)
\* an integer literal, by its limbs (hi in field n, lo in field o)
IntLimbs(hi, lo) == Text("int", hi, "", lo)
IntText(n) == IntLimbs(n \div 65536, n % 65536)
BoolText(b) == Text("bool", IF b THEN 1 ELSE 0, "", 0)
\* an RFC 3339 timestamp: wall-clock reading n (hours) at UTC offset o (hours)
TimeText(n, o) == Text("time", n, "", o)
\* an in-memory unsigned number (u32), kept apart from every string
Num(n) == Text("u32", n \div 65536, "", n % 65536)
NumOf(x) == Text("u32", x.n, "", x.o)

\* an in-memory DateTime<Local>: wall-clock reading and the offset attached
DateTime(naive, off) == [naive |-> naive, off |-> off]

Scalar(q, x) == [q |-> q, x |-> x]
Plain(x) == Scalar(FALSE, x)
Quoted(x) == Scalar(TRUE, x)

Line(k, key, val) == [k |-> k, key |-> key, val |-> val]
Item(key, val) == Line("item", key, val)
Field(key, val) == Line("field", key, val)
BlankLine == Line("blank", "", Plain(EmptyStr))
FlowEmptyLine == Line("flowempty", "", Plain(EmptyStr))
JunkLine == Line("junk", "", Plain(EmptyStr))

\* ------------------------------------------------------- in-memory records
NoMeta ==
  [count |-> Num(0), tail_type |-> EmptyStr, base_version_id |-> Num(0),
   published |-> FALSE, max_level |-> Num(0),
   last_updated_at |-> DateTime(0, 0), version_id |-> Num(0)]

TocMeta(count, tail, base, pub, maxl, time, ver) ==
  [count |-> count, tail_type |-> tail, base_version_id |-> base,
   published |-> pub, max_level |-> maxl, last_updated_at |-> time,
   version_id |-> ver]

\* One element of the entry list. doc_id and id are Num(_) in a Doc and
\* string texts in a Title; a Meta element carries its record in meta.
TocEntry(variant, title, uuid, links, docid, level, id) ==
  [variant |-> variant, title |-> title, uuid |-> uuid, url |-> W("url"),
   prev_uuid |-> links[1], sibling_uuid |-> links[2],
   child_uuid |-> links[3], parent_uuid |-> links[4],
   doc_id |-> docid, level |-> level, id |-> id,
   open_window |-> Num(0), visible |-> Num(1), meta |-> NoMeta]

MetaEntry(m) ==
  [variant |-> "Meta", title |-> EmptyStr, uuid |-> EmptyStr, url |-> EmptyStr,
   prev_uuid |-> EmptyStr, sibling_uuid |-> EmptyStr,
   child_uuid |-> EmptyStr, parent_uuid |-> EmptyStr,
   doc_id |-> EmptyStr, level |-> Num(0), id |-> EmptyStr,
   open_window |-> Num(0), visible |-> Num(0), meta |-> m]

Toc(meta, toc) == [meta |-> meta, toc |-> toc]

\* ------------------------------------------------ serde_yaml::to_string
\* Serializer::serialize_str: a text that would read back as a number, a
\* boolean or null is written in quotes, any other text plain.
StrScalar(x) == Scalar(x.t \in {"int", "bool", "empty"}, x)
U32Scalar(v) == Plain(IntLimbs(v.n, v.o))
BoolScalar(b) == Plain(BoolText(b))

\* time_serde::serialize: serializer.serialize_i64(time.timestamp_millis())
time_serde_serialize(time) ==
  Plain(IntText((time.naive - time.off) * 3600000))

\* #[derive(Serialize)] writes the fields in declaration order.
TocMetaFields(m) ==
  << <<"count", U32Scalar(m.count)>>,
     <<"tail_type", StrScalar(m.tail_type)>>,
     <<"base_version_id", U32Scalar(m.base_version_id)>>,
     <<"published", BoolScalar(m.published)>>,
     <<"max_level", U32Scalar(m.max_level)>>,
     <<"last_updated_at", time_serde_serialize(m.last_updated_at)>>,
     <<"version_id", U32Scalar(m.version_id)>> >>

IdScalar(x) == IF x.t = "u32" THEN U32Scalar(x) ELSE StrScalar(x)

TocItemFields(e) ==
  << <<"title", StrScalar(e.title)>>,
     <<"uuid", StrScalar(e.uuid)>>,
     <<"url", StrScalar(e.url)>>,
     <<"prev_uuid", StrScalar(e.prev_uuid)>>,
     <<"sibling_uuid", StrScalar(e.sibling_uuid)>>,
     <<"child_uuid", StrScalar(e.child_uuid)>>,
     <<"parent_uuid", StrScalar(e.parent_uuid)>>,
     <<"doc_id", IdScalar(e.doc_id)>>,
     <<"level", U32Scalar(e.level)>>,
     <<"id", IdScalar(e.id)>>,
     <<"open_window", U32Scalar(e.open_window)>>,
     <<"visible", U32Scalar(e.visible)>> >>

\* #[serde(tag = "type")]: the variant's name is written as the first field.
TagOf(variant) ==
  CASE variant = "Meta" -> W("META")
    [] variant = "Doc" -> W("DOC")
    [] OTHER -> W("TITLE")

TaggedFields(e) ==
  << <<"type", StrScalar(TagOf(e.variant))>> >>
    \o (IF e.variant = "Meta" THEN TocMetaFields(e.meta) ELSE TocItemFields(e))

\* One element of a block sequence: "- k: v" and then "  k: v" lines.
RecordLines(fields) ==
  [i \in 1..Len(fields) |->
     IF i = 1 THEN Item(fields[i][1], fields[i][2])
     ELSE Field(fields[i][1], fields[i][2])]

RECURSIVE Flatten(_)
Flatten(ss) == IF ss = <<>> THEN <<>> ELSE Head(ss) \o Flatten(Tail(ss))

\* to_string(&Vec<TocMeta>) and to_string(&Vec<TocItem>): the lines of the
\* text. An empty Vec is written as the flow sequence "[]".
to_string_meta(metas) ==
  IF metas = <<>> THEN <<FlowEmptyLine>>
  ELSE Flatten([i \in 1..Len(metas) |-> RecordLines(TocMetaFields(metas[i]))])

to_string_toc(toc) ==
  IF toc = <<>> THEN <<FlowEmptyLine>>
  ELSE Flatten([i \in 1..Len(toc) |-> RecordLines(TaggedFields(toc[i]))])

\* ------------------------------------------------ toc_serde::serialize
\* The value the JSON serializer is handed for toc_yml: null or a string.
WireNull == [null |-> TRUE, lines |-> <<>>]
WireStr(lines) == [null |-> FALSE, lines |-> lines]

NoValue == [some |-> FALSE, toc |-> Toc(NoMeta, <<>>)]
Some(t) == [some |-> TRUE, toc |-> t]

\* faulty variant: the two blocks run together with no separator
JoinBlocks_NoSeparator(meta, toc) == meta \o toc

\* vec![meta, toc].join("\n"): both texts end with a newline, so the join
\* leaves one empty line between them.
JoinBlocks(meta, toc) == meta \o <<BlankLine>> \o toc

toc_serde_serialize(value) ==
  IF value.some
    THEN WireStr(JoinBlocks(to_string_meta(<<value.toc.meta>>),
                            to_string_toc(value.toc.toc)))
    ELSE WireNull

\* ------------------------------------------------ serde_yaml::from_str
Ok(v) == [ok |-> TRUE, v |-> v, msg |-> ""]
Err(msg) == [ok |-> FALSE, v |-> <<>>, msg |-> msg]

NonBlank(ls) == SelectSeq(ls, LAMBDA l : l.k # "blank")

\* The scanner and parser accept: nothing at all, the lone flow sequence
\* "[]", a block sequence of mappings, or one block mapping.
YamlSyntaxOk(nb) ==
  \/ nb = <<>>
  \/ nb = <<FlowEmptyLine>>
  \/ /\ \A i \in 1..Len(nb) : nb[i].k \in {"item", "field"}
     /\ nb[1].k = "field" => \A i \in 1..Len(nb) : nb[i].k = "field"

\* The index of the last line of the element that opens at line 1.
ElementEnd(nb) ==
  IF \E i \in 2..Len(nb) : nb[i].k = "item"
    THEN (CHOOSE i \in 2..Len(nb) :
            /\ nb[i].k = "item"
            /\ \A j \in 2..(i - 1) : nb[j].k # "item") - 1
    ELSE Len(nb)

RECURSIVE SplitItems(_)
SplitItems(nb) ==
  IF nb = <<>> THEN <<>>
  ELSE <<SubSeq(nb, 1, ElementEnd(nb))>>
         \o SplitItems(SubSeq(nb, ElementEnd(nb) + 1, Len(nb)))

\* deserialize_seq: the elements of the top-level sequence, each the lines
\* of one mapping, or the parser's error.
YamlSeq(ls) ==
  LET nb == NonBlank(ls) IN
    IF ~YamlSyntaxOk(nb) THEN Err("syntax")
    ELSE IF nb = <<>> \/ nb = <<FlowEmptyLine>> THEN Ok(<<>>)
    ELSE IF nb[1].k = "field" THEN Err("invalid type")
    ELSE Ok(SplitItems(nb))

\* The type a scalar has once #[serde(tag)] has buffered it (deserialize_any):
\* a quoted scalar is a string, a plain one is what its text spells.
ContentType(val) ==
  IF val.q \/ val.x.t \in {"word", "time"} THEN "str"
  ELSE IF val.x.t = "empty" THEN "unit"
  ELSE val.x.t

\* faulty variant: quoted numbers are taken as numbers, and anything as a boolean
FieldError_Coercing(ty, val, direct) ==
  CASE ty = "u32" ->
         IF val.x.t # "int" THEN "invalid type"
         ELSE IF val.x.n < 0 \/ val.x.n > U32MaxHigh THEN "invalid value"
         ELSE ""
    [] ty = "bool" -> ""
    [] ty = "str" ->
         IF direct \/ ContentType(val) = "str" THEN "" ELSE "invalid type"
    [] OTHER ->
         IF ~(direct \/ ContentType(val) = "str") THEN "invalid type"
         ELSE IF val.x.t # "time" THEN "rfc3339"
         ELSE ""

\* faulty variant: a number of 2^32 or more is let through
FieldError_Wrapping(ty, val, direct) ==
  CASE ty = "u32" ->
         IF val.q \/ val.x.t # "int" THEN "invalid type"
         ELSE IF val.x.n < 0 THEN (IF direct THEN "invalid type" ELSE "invalid value")
         ELSE ""
    [] ty = "bool" ->
         IF val.q \/ val.x.t # "bool" THEN "invalid type" ELSE ""
    [] ty = "str" ->
         IF direct \/ ContentType(val) = "str" THEN "" ELSE "invalid type"
    [] OTHER ->
         IF ~(direct \/ ContentType(val) = "str") THEN "invalid type"
         ELSE IF val.x.t # "time" THEN "rfc3339"
         ELSE ""

\* Why a scalar cannot fill a field of type ty ("" when it can). direct:
\* read straight from the YAML events (TocMeta in the metadata block);
\* otherwise read from the buffered content of a tagged element.
FieldError(ty, val, direct) ==
  CASE ty = "u32" ->
         IF val.q \/ val.x.t # "int" THEN "invalid type"
         ELSE IF val.x.n < 0 THEN (IF direct THEN "invalid type" ELSE "invalid value")
         ELSE IF val.x.n > U32MaxHigh THEN "invalid value"
         ELSE ""
    [] ty = "bool" ->
         IF val.q \/ val.x.t # "bool" THEN "invalid type" ELSE ""
    [] ty = "str" ->
         IF direct \/ ContentType(val) = "str" THEN "" ELSE "invalid type"
    [] OTHER -> \* "time": a string that DateTime::parse_from_rfc3339 accepts
         IF ~(direct \/ ContentType(val) = "str") THEN "invalid type"
         ELSE IF val.x.t # "time" THEN "rfc3339"
         ELSE ""

TocMetaTypes ==
  [count |-> "u32", tail_type |-> "str", base_version_id |-> "u32",
   published |-> "bool", max_level |-> "u32", last_updated_at |-> "time",
   version_id |-> "u32"]

TocDocItemTypes ==
  [title |-> "str", uuid |-> "str", url |-> "str", prev_uuid |-> "str",
   sibling_uuid |-> "str", child_uuid |-> "str", parent_uuid |-> "str",
   doc_id |-> "u32", level |-> "u32", id |-> "u32", open_window |-> "u32",
   visible |-> "u32"]

TocTitleItemTypes ==
  [title |-> "str", uuid |-> "str", url |-> "str", prev_uuid |-> "str",
   sibling_uuid |-> "str", child_uuid |-> "str", parent_uuid |-> "str",
   doc_id |-> "str", level |-> "u32", id |-> "str", open_window |-> "u32",
   visible |-> "u32"]

\* What line i of a mapping does to the derived visitor of a struct whose
\* fields are DOMAIN types: "" if the visitor goes on.
LineError(rec, i, types, direct) ==
  IF rec[i].key \notin DOMAIN types THEN ""  \* unknown fields are ignored
  ELSE IF \E j \in 1..(i - 1) : rec[j].key = rec[i].key THEN "duplicate field"
  ELSE FieldError(types[rec[i].key], rec[i].val, direct)

\* The derived Deserialize of a struct, keys visited in document order:
\* the first line that fails decides the error; a field never seen is
\* reported at the end of the mapping.
StructError(rec, types, direct) ==
  IF \E i \in 1..Len(rec) : LineError(rec, i, types, direct) # ""
    THEN LineError(rec,
                   CHOOSE i \in 1..Len(rec) :
                     /\ LineError(rec, i, types, direct) # ""
                     /\ \A j \in 1..(i - 1) : LineError(rec, j, types, direct) = "",
                   types, direct)
  ELSE IF \E f \in DOMAIN types : \A i \in 1..Len(rec) : rec[i].key # f
    THEN "missing field"
  ELSE ""

Get(rec, key) == rec[CHOOSE i \in 1..Len(rec) : rec[i].key = key].val

\* DateTime::parse_from_rfc3339: the instant (hours, UTC) and the offset read
parse_from_rfc3339(x) == [utc |-> x.n - x.o, offset |-> x.o]
\* DateTime<FixedOffset>::naive_local: the wall-clock reading at its offset
naive_local(t) == t.utc + t.offset

\* faulty variant: the instant is kept and shown in the local zone
time_serde_deserialize_Converted(val, now) ==
  DateTime(parse_from_rfc3339(val.x).utc + now, now)

\* time_serde::deserialize: DateTime::from_local of the wall-clock reading of
\* the parsed timestamp, with the offset the local zone has now.
time_serde_deserialize(val, now) ==
  DateTime(naive_local(parse_from_rfc3339(val.x)), now)

DeTocMeta(rec, now) ==
  TocMeta(NumOf(Get(rec, "count").x), Get(rec, "tail_type").x,
          NumOf(Get(rec, "base_version_id").x), Get(rec, "published").x.n = 1,
          NumOf(Get(rec, "max_level").x),
          time_serde_deserialize(Get(rec, "last_updated_at"), now),
          NumOf(Get(rec, "version_id").x))

\* The variant a tag names, "" when #[serde(rename)] knows no such name.
TocVariant(tag) ==
  CASE tag = W("META") -> "Meta"
    [] tag = W("DOC") -> "Doc"
    [] tag = W("TITLE") -> "Title"
    [] OTHER -> ""

TagLines(rec) == {i \in 1..Len(rec) : rec[i].key = "type"}
FirstTag(rec) == rec[CHOOSE i \in TagLines(rec) : \A j \in TagLines(rec) : i <= j].val.x

VariantTypes(variant) ==
  CASE variant = "Meta" -> TocMetaTypes
    [] variant = "Doc" -> TocDocItemTypes
    [] OTHER -> TocTitleItemTypes

\* #[serde(tag = "type")]: the tag is read where it stands, the other keys
\* are buffered, and the variant's struct is then read from the buffer.
TaggedError(rec) ==
  IF TagLines(rec) = {} THEN "missing field"
  ELSE IF TocVariant(FirstTag(rec)) = "" THEN "unknown variant"
  ELSE IF Cardinality(TagLines(rec)) > 1 THEN "duplicate field"
  ELSE StructError(rec, VariantTypes(TocVariant(FirstTag(rec))), FALSE)

IdValue(variant, val) == IF variant = "Doc" THEN NumOf(val.x) ELSE val.x

DeTocItem(rec, now) ==
  LET variant == TocVariant(FirstTag(rec)) IN
    IF variant = "Meta" THEN MetaEntry(DeTocMeta(rec, now))
    ELSE [variant |-> variant,
          title |-> Get(rec, "title").x, uuid |-> Get(rec, "uuid").x,
          url |-> Get(rec, "url").x,
          prev_uuid |-> Get(rec, "prev_uuid").x,
          sibling_uuid |-> Get(rec, "sibling_uuid").x,
          child_uuid |-> Get(rec, "child_uuid").x,
          parent_uuid |-> Get(rec, "parent_uuid").x,
          doc_id |-> IdValue(variant, Get(rec, "doc_id")),
          level |-> NumOf(Get(rec, "level").x),
          id |-> IdValue(variant, Get(rec, "id")),
          open_window |-> NumOf(Get(rec, "open_window").x),
          visible |-> NumOf(Get(rec, "visible").x),
          meta |-> NoMeta]

\* The first element that fails decides the error of the whole Vec.
FirstBad(errs) ==
  CHOOSE i \in 1..Len(errs) :
    errs[i] # "" /\ \A j \in 1..(i - 1) : errs[j] = ""

\* serde_yaml::from_str::<Vec<TocMeta>>
from_str_meta(ls, now) ==
  LET seq == YamlSeq(ls)
      errs == [i \in 1..Len(seq.v) |-> StructError(seq.v[i], TocMetaTypes, TRUE)]
  IN IF ~seq.ok THEN seq
     ELSE IF \E i \in 1..Len(errs) : errs[i] # "" THEN Err(errs[FirstBad(errs)])
     ELSE Ok([i \in 1..Len(seq.v) |-> DeTocMeta(seq.v[i], now)])

\* faulty variant: the entries come back last record first
from_str_toc_Reversed(ls, now) ==
  LET seq == YamlSeq(ls)
      errs == [i \in 1..Len(seq.v) |-> TaggedError(seq.v[i])]
  IN IF ~seq.ok THEN seq
     ELSE IF \E i \in 1..Len(errs) : errs[i] # "" THEN Err(errs[FirstBad(errs)])
     ELSE Ok([i \in 1..Len(seq.v) |-> DeTocItem(seq.v[Len(seq.v) + 1 - i], now)])

\* faulty variant: the records read before the first bad one are returned
from_str_toc_Partial(ls, now) ==
  LET seq == YamlSeq(ls)
      errs == [i \in 1..Len(seq.v) |-> TaggedError(seq.v[i])]
  IN IF ~seq.ok THEN seq
     ELSE IF \E i \in 1..Len(errs) : errs[i] # ""
       THEN Ok([i \in 1..(FirstBad(errs) - 1) |-> DeTocItem(seq.v[i], now)])
     ELSE Ok([i \in 1..Len(seq.v) |-> DeTocItem(seq.v[i], now)])

\* serde_yaml::from_str::<Vec<TocItem>>
from_str_toc(ls, now) ==
  LET seq == YamlSeq(ls)
      errs == [i \in 1..Len(seq.v) |-> TaggedError(seq.v[i])]
  IN IF ~seq.ok THEN seq
     ELSE IF \E i \in 1..Len(errs) : errs[i] # "" THEN Err(errs[FirstBad(errs)])
     ELSE Ok([i \in 1..Len(seq.v) |-> DeTocItem(seq.v[i], now)])

\* ------------------------------------------------ toc_serde::deserialize
Min(a, b) == IF a < b THEN a ELSE b

\* faulty variant: the metadata section is cut one line short
MetaSection_OneShort(lines) == SubSeq(lines, 1, Min(MetaLineCount - 1, Len(lines)))

\* value.lines().take(9) and value.lines().skip(9)
MetaSection(lines) == SubSeq(lines, 1, Min(MetaLineCount, Len(lines)))
TocSection(lines) == SubSeq(lines, Min(MetaLineCount, Len(lines)) + 1, Len(lines))

\* deserializer.deserialize_string(StrVisitor): serde_json calls visit_str
\* for a JSON string and rejects every other value, null included, without
\* calling the visitor.
deserialize_string(wire) ==
  IF wire.null THEN Err("invalid type") ELSE Ok(wire.lines)

Pending == [kind |-> "Pending", toc |-> Toc(NoMeta, <<>>), msg |-> ""]
Returned(some, toc) ==
  [kind |-> IF some THEN "Some" ELSE "None", toc |-> toc, msg |-> ""]
Failed(msg) == [kind |-> "Err", toc |-> Toc(NoMeta, <<>>), msg |-> msg]
Panicked(msg) == [kind |-> "Panic", toc |-> Toc(NoMeta, <<>>), msg |-> msg]

\* .pop().expect("Can not fine Metadata.")
PopExpect(metas, toc) ==
  IF metas = <<>> THEN Panicked("Can not fine Metadata.")
  ELSE IF ~toc.ok THEN Failed(toc.msg)
  ELSE Returned(TRUE, Toc(metas[Len(metas)], toc.v))

toc_serde_deserialize(wire, now) ==
  LET value == deserialize_string(wire)
      meta == from_str_meta(MetaSection(value.v), now)
      toc == from_str_toc(TocSection(value.v), now)
  IN IF ~value.ok THEN Failed(value.msg)
     ELSE IF ~meta.ok THEN Failed(meta.msg)
     ELSE PopExpect(meta.v, toc)

\* ------------------------------------------------------------------ inputs
\* The offsets the process-local time zone may have (hours east of UTC).
LocalOffsets == {0, 8}

MetaPool ==
  {TocMeta(Num(2), W("doc"), Num(1), TRUE, Num(1), DateTime(10, 8), Num(5)),
   TocMeta(Num(0), EmptyStr, Num(0), FALSE, Num(0), DateTime(10, 0),
           NumOf(IntLimbs(65535, 65535))),
   TocMeta(Num(1), IntText(3), Num(7), TRUE, Num(2), DateTime(3, 8), Num(6))}

\* prev_uuid, sibling_uuid, child_uuid, parent_uuid: "" means no link
LinkPatterns ==
  {<<EmptyStr, EmptyStr, EmptyStr, EmptyStr>>,
   <<W("u1"), W("u2"), W("u1"), W("u2")>>,
   <<EmptyStr, W("u2"), EmptyStr, W("u1")>>,
   <<W("u2"), EmptyStr, W("u1"), EmptyStr>>}

EntryPool ==
  {TocEntry("Doc", W("intro"), W("u1"), l, Num(7), Num(0), Num(7)) : l \in LinkPatterns}
    \cup {TocEntry("Title", W("part"), W("u2"), l, d, Num(1), d) :
            l \in LinkPatterns, d \in {EmptyStr, IntText(7)}}

SeqsUpTo(S, n) == UNION {[1..k -> S] : k \in 0..n}

\* What the encoder may be handed: no TOC, or a metadata record and an
\* ordered list of Doc/Title entries.
Values ==
  {NoValue} \cup {Some(Toc(m, es)) : m \in MetaPool, es \in SeqsUpTo(EntryPool, MaxEntries)}

\* The metadata block as the API sends it: nine lines, two of which
\* (type, display_level) TocMeta does not declare.
UpstreamMeta(m) ==
  RecordLines(
    << <<"type", Plain(W("META"))>>,
       <<"count", U32Scalar(m.count)>>,
       <<"display_level", Plain(IntText(0))>>,
       <<"tail_type", StrScalar(m.tail_type)>>,
       <<"base_version_id", U32Scalar(m.base_version_id)>>,
       <<"published", BoolScalar(m.published)>>,
       <<"max_level", U32Scalar(m.max_level)>>,
       <<"last_updated_at",
         Plain(TimeText(m.last_updated_at.naive, m.last_updated_at.off))>>,
       <<"version_id", U32Scalar(m.version_id)>> >>)

UpstreamEntry(e) ==
  IF e.variant = "Meta" THEN UpstreamMeta(e.meta) ELSE RecordLines(TaggedFields(e))

UpstreamToc(t) ==
  UpstreamMeta(t.meta) \o Flatten([i \in 1..Len(t.toc) |-> UpstreamEntry(t.toc[i])])

BaseMeta == TocMeta(Num(2), W("doc"), Num(1), TRUE, Num(1), DateTime(10, 8), Num(5))
BaseDoc ==
  TocEntry("Doc", W("intro"), W("u1"), <<EmptyStr, EmptyStr, EmptyStr, EmptyStr>>,
           Num(7), Num(0), Num(7))
BaseTitle ==
  TocEntry("Title", W("part"), W("u2"), <<EmptyStr, EmptyStr, EmptyStr, W("u1")>>,
           EmptyStr, Num(1), EmptyStr)
BaseLines == UpstreamToc(Toc(BaseMeta, <<BaseDoc, BaseTitle>>))

\* well-formed wire strings, a Meta-tagged record among the entries included
ValidWires ==
  {UpstreamToc(Toc(m, es)) :
     m \in MetaPool,
     es \in SeqsUpTo(EntryPool \cup {MetaEntry(BaseMeta)}, MaxEntries)}

\* every prefix of a well-formed wire string
Truncations == {SubSeq(BaseLines, 1, n) : n \in 0..Len(BaseLines)}

ReplaceAt(ls, i, l) == [ls EXCEPT ![i] = l]
RemoveAt(ls, i) == SubSeq(ls, 1, i - 1) \o SubSeq(ls, i + 1, Len(ls))
InsertAt(ls, i, l) == SubSeq(ls, 1, i - 1) \o <<l>> \o SubSeq(ls, i, Len(ls))

OddScalars ==
  {Plain(W("SECTION")), Plain(W("doc")), Plain(W("META")), Plain(W("TITLE")),
   Quoted(W("yes")), Quoted(IntText(3)), Plain(IntText(3)), Plain(IntText(-1)),
   Plain(IntLimbs(65536, 0)), Plain(EmptyStr)}
OddLines == {JunkLine, BlankLine, FlowEmptyLine}

\* a well-formed wire string with one line damaged, dropped or added
Mutations ==
  UNION {
    {ReplaceAt(BaseLines, i, [BaseLines[i] EXCEPT !.val = v]) : v \in OddScalars}
      \cup {ReplaceAt(BaseLines, i, l) : l \in OddLines}
      \cup {InsertAt(BaseLines, i, l) : l \in OddLines}
      \cup {RemoveAt(BaseLines, i)}
    : i \in 1..Len(BaseLines)}

ShortLines ==
  {JunkLine, BlankLine, FlowEmptyLine,
   Item("count", Plain(IntText(2))), Field("type", Plain(W("DOC")))}

\* Scenario A of the specification: nine metadata lines with the strings in
\* quotes, a DOC at level 0 and a TITLE at level 1 below it.
ScenarioA ==
  RecordLines(
    << <<"type", Plain(W("META"))>>,
       <<"count", Plain(IntText(2))>>,
       <<"display_level", Plain(IntText(0))>>,
       <<"tail_type", Quoted(W("doc"))>>,
       <<"base_version_id", Plain(IntText(1))>>,
       <<"published", Plain(BoolText(TRUE))>>,
       <<"max_level", Plain(IntText(1))>>,
       <<"last_updated_at", Quoted(TimeText(0, 8))>>,
       <<"version_id", Plain(IntText(5))>> >>)
    \o UpstreamEntry(BaseDoc) \o UpstreamEntry(BaseTitle)

\* an empty metadata list filling the first nine lines, then a short tail
PaddedWires ==
  {<<FlowEmptyLine>> \o [i \in 1..(MetaLineCount - 1) |-> BlankLine] \o tail :
     tail \in SeqsUpTo(ShortLines, 1)}

ServerWires ==
  {WireNull}
    \cup {WireStr(ls) :
            ls \in ValidWires \cup Truncations \cup Mutations
                     \cup SeqsUpTo(ShortLines, MaxShort)
                     \cup {ScenarioA} \cup PaddedWires}

\* ---------------------------------------------------------------------------
\* The HTTP client (src/src/client.rs, src/src/repos.rs, src/src/docs.rs).
\* Text that ends up in a header value is a sequence of bytes; a path is the
\* sequence of the pieces format! joins; an error is a variant of YuqueError
\* with the text it carries.

\* "@yuque/sdk"
DEFAULT_USER_AGENT == <<64, 121, 117, 113, 117, 101, 47, 115, 100, 107>>
\* "application/json"
ApplicationJson ==
  <<97, 112, 112, 108, 105, 99, 97, 116, 105, 111, 110, 47, 106, 115, 111, 110>>

YuqueError(variant, detail) == [variant |-> variant, detail |-> detail]
NoError == YuqueError("", <<>>)

\* From<InvalidHeaderValue> for YuqueError
FromInvalidHeaderValue == YuqueError("Internal", <<"failed to parse header value">>)
\* From<reqwest::Error> for YuqueError; stage: where reqwest failed
FromReqwestError(stage) == YuqueError("Request", <<stage>>)

\* the test HeaderValue::from_str applies to each byte
is_valid(b) == (b >= 32 /\ b # 127) \/ b = 9

\* str::parse::<HeaderValue>()
ParseHeaderValue(s) ==
  IF \A i \in 1..Len(s) : is_valid(s[i])
  THEN [ok |-> TRUE, v |-> s]
  ELSE [ok |-> FALSE, v |-> <<>>]

\* Header names are kept in lower case.
HeaderName(name) ==
  CASE name = "X-Auth-Token" -> "x-auth-token"
    [] name = "User-Agent" -> "user-agent"
    [] name = "Content-Type" -> "content-type"
    [] OTHER -> name

NoHeaders == [n \in {} |-> <<>>]

\* HeaderMap::insert
HeaderInsert(map, name, val) ==
  [n \in DOMAIN map \cup {HeaderName(name)} |->
     IF n = HeaderName(name) THEN val ELSE map[n]]

HeadersOk(map) == [ok |-> TRUE, v |-> map, err |-> NoError]
HeadersErr(e) == [ok |-> FALSE, v |-> NoHeaders, err |-> e]
NoHeadersYet == [ok |-> FALSE, v |-> NoHeaders, err |-> NoError]

\* faulty variant: the values are put into the map as they are
generate_headers_Unchecked(y) ==
  HeadersOk(HeaderInsert(HeaderInsert(NoHeaders, "X-Auth-Token", y.token),
                         "User-Agent", y.user_agent))

\* Yuque::generate_headers
generate_headers(y) ==
  LET token == ParseHeaderValue(y.token)
      agent == ParseHeaderValue(y.user_agent)
  IN IF ~token.ok THEN HeadersErr(FromInvalidHeaderValue)
     ELSE IF ~agent.ok THEN HeadersErr(FromInvalidHeaderValue)
     ELSE HeadersOk(HeaderInsert(HeaderInsert(NoHeaders, "X-Auth-Token", token.v),
                                 "User-Agent", agent.v))

NoBody == [some |-> FALSE, text |-> <<>>]
SomeBody(text) == [some |-> TRUE, text |-> text]

Request(method, url, headers, body) ==
  [method |-> method, url |-> url, headers |-> headers, body |-> body,
   query |-> <<>>]
NoRequest == Request("", [absolute |-> FALSE, text |-> <<>>], NoHeaders, NoBody)

RequestOk(r) == [ok |-> TRUE, v |-> r, err |-> NoError]
RequestErr(e) == [ok |-> FALSE, v |-> NoRequest, err |-> e]

\* faulty variant: Content-Type goes onto every request
request_AlwaysJson(y, method, api, data) ==
  LET url == [absolute |-> y.host.absolute, text |-> <<y.host.text>> \o api]
      headers == generate_headers(y)
  IN IF ~headers.ok THEN RequestErr(headers.err)
     ELSE RequestOk(Request(method, url,
                            HeaderInsert(headers.v, "Content-Type", ApplicationJson),
                            IF method \in {"Post", "Put"} THEN data ELSE NoBody))

\* Yuque::request, and get / post / put / delete over it
request(y, method, api, data) ==
  LET url == [absolute |-> y.host.absolute, text |-> <<y.host.text>> \o api]
      headers == generate_headers(y)
  IN IF ~headers.ok THEN RequestErr(headers.err)
     ELSE IF method \in {"Post", "Put"}
       THEN RequestOk(Request(method, url,
                              HeaderInsert(headers.v, "Content-Type", ApplicationJson),
                              data))
       ELSE RequestOk(Request(method, url, headers.v, NoBody))

\* RequestBuilder::query
WithQuery(r, q) == [r EXCEPT !.query = q]

StatusOk == [ok |-> TRUE, err |-> NoError]
StatusErr(e) == [ok |-> FALSE, err |-> e]

\* faulty variant: every status from 400 up is an error
judge_status_code_Range(status_code, url) ==
  CASE status_code = 401 -> StatusErr(YuqueError("InvalidUserInfo", url))
    [] status_code = 403 -> StatusErr(YuqueError("NoPermission", url))
    [] status_code = 404 -> StatusErr(YuqueError("NotFound", url))
    [] status_code >= 500 -> StatusErr(YuqueError("ServerException", url))
    [] status_code >= 400 -> StatusErr(YuqueError("InvalidParams", url))
    [] OTHER -> StatusOk

\* judge_status_code
judge_status_code(status_code, url) ==
  CASE status_code = 400 -> StatusErr(YuqueError("InvalidParams", url))
    [] status_code = 401 -> StatusErr(YuqueError("InvalidUserInfo", url))
    [] status_code = 403 -> StatusErr(YuqueError("NoPermission", url))
    [] status_code = 404 -> StatusErr(YuqueError("NotFound", url))
    [] status_code = 500 -> StatusErr(YuqueError("ServerException", url))
    [] OTHER -> StatusOk

\* From<YuqueFormat> for String
FormatString(format) ==
  CASE format = "Lake" -> "lake"
    [] format = "Markdown" -> "markdown"
    [] OTHER -> "html"

\* From<&YuqueFormat> for String
FormatStringByRef(format) ==
  CASE format = "Lake" -> "lake"
    [] format = "Markdown" -> "markdown"
    [] OTHER -> "html"

\* Display for YuqueFormat
FormatDisplay(format) ==
  CASE format = "Lake" -> "lake"
    [] format = "Markdown" -> "markdown"
    [] OTHER -> "html"

\* the #[serde(rename = ..)] of the variants
FormatWireName(format) ==
  CASE format = "Lake" -> "lake"
    [] format = "Markdown" -> "markdown"
    [] OTHER -> "html"

\* faulty variant: every format is let through
FormatGate_Open(format) == NoError

\* the match on data.format that opens update_with_repo: the error it
\* returns, NoError when it lets the document through
FormatGate(format) ==
  IF format = "Markdown" THEN NoError
  ELSE YuqueError("NotSupportFormat", <<FormatString(format)>>)

\* serde_json::to_string(&data).ok() of a Repo and of a Doc
RepoJson == SomeBody(<<"repo">>)
DocJson(format) == SomeBody(<<"doc", FormatString(format)>>)

\* What an operation of ReposClient or DocsClient does with its arguments:
\* the error it returns before anything is built (NoError when none), the
\* verb, the path, the body and the query it sends, and whether it reads the
\* response body as JSON.
Plan(reject, method, api, data, query, json) ==
  [reject |-> reject, method |-> method, api |-> api, data |-> data,
   query |-> query, json |-> json]

Operation(c) ==
  CASE c.op = "repos.list_repo_of_user" ->
         Plan(NoError, "Get", <<"/users/", c.name, "/repos">>, NoBody, c.query, TRUE)
    [] c.op = "repos.list_repo_of_group" ->
         Plan(NoError, "Get", <<"/groups/", c.name, "/repos">>, NoBody, c.query, TRUE)
    [] c.op = "repos.create_repo_of_user" ->
         Plan(NoError, "Post", <<"/users/", c.name, "/repos">>, RepoJson, <<>>, TRUE)
    [] c.op = "repos.create_repo_of_group" ->
         Plan(NoError, "Post", <<"/groups/", c.name, "/repos">>, RepoJson, <<>>, TRUE)
    [] c.op = "repos.get" ->
         Plan(NoError, "Get", <<"/repos/", c.name>>, NoBody, c.query, TRUE)
    [] c.op = "repos.update" ->
         Plan(NoError, "Put", <<"/repos/", c.name>>, RepoJson, <<>>, TRUE)
    [] c.op = "repos.delete" ->
         Plan(NoError, "Delete", <<"/repos/", c.name>>, NoBody, <<>>, FALSE)
    [] c.op = "docs.list_with_repo" ->
         Plan(NoError, "Get", <<"/repos/", c.name, "/docs">>, NoBody, <<>>, TRUE)
    [] c.op = "docs.get_with_repo_ns" ->
         Plan(NoError, "Get", <<"/repos/", c.name, "/docs/", c.slug>>, NoBody,
              c.query, TRUE)
    [] c.op = "docs.create_with_repo" ->
         Plan(NoError, "Post", <<"/repos/", c.name, "/docs">>, DocJson(c.format),
              <<>>, TRUE)
    [] c.op = "docs.delete_with_repo" ->
         Plan(NoError, "Delete", <<"/repos/", c.name, "/docs/", ToString(c.id)>>,
              NoBody, <<>>, TRUE)
    [] OTHER ->
         Plan(FormatGate(c.format),
              "Put", <<"/repos/", c.name, "/docs/", ToString(c.id)>>,
              DocJson(c.format), <<>>, TRUE)

\* faulty variant: the request goes out a second time
Send_Again(net, r) == Append(Append(net, r), r)

\* RequestBuilder::send: the request goes onto the network
Send(net, r) == Append(net, r)

Success == [kind |-> "Ok", err |-> NoError]
Failure(e) == [kind |-> "Err", err |-> e]
NoOutcome == [kind |-> "Pending", err |-> NoError]

\* Response::json
ReadJson(body) ==
  CASE body = "json" -> Success
    [] body = "cut" -> Failure(FromReqwestError("body"))
    [] OTHER -> Failure(FromReqwestError("decode"))

\* The fields of DocDetail the conversions read, and Doc.
DocDetail(id, slug, title, format, body, draft) ==
  [id |-> id, slug |-> slug, title |-> title, format |-> format, body |-> body,
   body_draft |-> draft]
Doc(title, slug, format, body) ==
  [title |-> title, slug |-> slug, format |-> format, body |-> body]
NoDoc == Doc("", "", "", "")

\* faulty variant: the draft is taken for the body
try_from_Pair_Draft(value) ==
  IF value.format # "Markdown"
  THEN [ok |-> FALSE, doc |-> NoDoc, id |-> 0,
        err |-> YuqueError("NotSupportFormat", <<FormatString(value.format)>>)]
  ELSE [ok |-> TRUE,
        doc |-> Doc(value.title, value.slug, value.format, value.body_draft),
        id |-> value.id, err |-> NoError]

\* TryFrom<DocDetail> for Doc (the id field is not part of what it returns)
try_from_Doc(value) ==
  IF value.format # "Markdown"
  THEN [ok |-> FALSE, doc |-> NoDoc, id |-> 0,
        err |-> YuqueError("NotSupportFormat", <<FormatString(value.format)>>)]
  ELSE [ok |-> TRUE, doc |-> Doc(value.title, value.slug, value.format, value.body),
        id |-> 0, err |-> NoError]

\* TryFrom<DocDetail> for (Doc, i32)
try_from_Pair(value) ==
  IF value.format # "Markdown"
  THEN [ok |-> FALSE, doc |-> NoDoc, id |-> 0,
        err |-> YuqueError("NotSupportFormat", <<FormatString(value.format)>>)]
  ELSE [ok |-> TRUE, doc |-> Doc(value.title, value.slug, value.format, value.body),
        id |-> value.id, err |-> NoError]

\* ------------------------------------------------------------ client inputs
Token == <<116, 111, 107, 101, 110>>
Tokens ==
  {<<>>, Token, <<116, 9, 107>>, <<116, 10, 107>>, <<31>>, <<32>>, <<126>>,
   <<127>>, <<200>>}
NoAgent == [some |-> FALSE, text |-> <<>>]
Agents ==
  {NoAgent, [some |-> TRUE, text |-> <<99, 108, 105>>],
   [some |-> TRUE, text |-> <<99, 13, 10>>]}
Hosts ==
  {[absolute |-> TRUE, text |-> "https://www.yuque.com/api/v2"],
   [absolute |-> FALSE, text |-> "example_host"]}

\* YuqueBuilder::build
Yuque(token, host, agent) ==
  [token |-> token, host |-> host,
   user_agent |-> IF agent.some THEN agent.text ELSE DEFAULT_USER_AGENT]
Clients == {Yuque(t, h, a) : t \in Tokens, h \in Hosts, a \in Agents}
NoClient == Yuque(<<>>, [absolute |-> FALSE, text |-> ""], NoAgent)

Queries == {<<>>, <<<<"raw", "1">>>>}
Formats == {"Lake", "Markdown", "Html"}
CallOf(op, slug, id, query, format) ==
  [op |-> op, name |-> "yuque/help", slug |-> slug, id |-> id, query |-> query,
   format |-> format]
NoCall == CallOf("", "", 0, <<>>, "Markdown")
Calls ==
  {CallOf(op, "", 0, q, "Markdown") :
     op \in {"repos.list_repo_of_user", "repos.list_repo_of_group", "repos.get"},
     q \in Queries}
  \cup {CallOf("docs.get_with_repo_ns", "intro", 0, q, "Markdown") : q \in Queries}
  \cup {CallOf(op, "", 0, <<>>, "Markdown") :
          op \in {"repos.create_repo_of_user", "repos.create_repo_of_group",
                  "repos.update", "repos.delete", "docs.list_with_repo"}}
  \cup {CallOf("docs.delete_with_repo", "", 7, <<>>, "Markdown")}
  \cup {CallOf(op, "", 7, <<>>, f) :
          op \in {"docs.create_with_repo", "docs.update_with_repo"}, f \in Formats}

\* documents as the server returns them
DocDetails ==
  {DocDetail(id, "create-by-sdk", "Created by SDK", f, body, "draft") :
     id \in {7, -1}, f \in Formats, body \in {"# body", ""}}

StatusCodes == {200, 204, 399, 400, 401, 402, 403, 404, 405, 429, 499, 500, 501, 502, 503}
Bodies == {"json", "text", "cut"}
NoResponse == [kind |-> "none", status |-> 0, body |-> ""]
Responses ==
  {[kind |-> "error", status |-> 0, body |-> ""]}
    \cup {[kind |-> "status", status |-> s, body |-> b] : s \in StatusCodes, b \in Bodies}

\* ----------------------------------------------------------- state machine
VARIABLES
  pc,        \* "value": about to encode; "wire": about to decode; "done"
  origin,    \* where the wire value comes from: "encoder" or "server"
  now,       \* the offset of the local time zone, Local::now().offset()
  value,     \* the Option<Toc> handed to toc_serde::serialize
  wire,      \* the JSON value of toc_yml
  metaText,  \* the lines handed to from_str::<Vec<TocMeta>>
  tocText,   \* the lines handed to from_str::<Vec<TocItem>>
  result,    \* what toc_serde::deserialize did
  cpc,       \* the client: "idle", "sending", "responded", "reading",
             \* "returned"; "generated", "built", "converted", "formatted"
             \* after a call that sends nothing; "into_str", "overflow"
             \* inside a conversion into &str ("off" while the codec runs)
  yuque,     \* the Yuque struct
  call,      \* the operation called and its arguments
  sent,      \* the requests that went onto the network
  response,  \* what came back for the request
  bodyReads, \* how many times a response body was read
  outcome,   \* what the operation returned
  headers,   \* what generate_headers returned
  built,     \* what get / post / put / delete returned, and for which arguments
  converted, \* what converting a DocDetail returned, and for which detail
  formatted  \* a YuqueFormat being turned into text: the conversion, the
             \* calls nested so far, the text once it has returned

codecVars == <<pc, origin, now, value, wire, metaText, tocText, result>>
pureVars == <<built, converted, formatted>>
clientVars ==
  <<cpc, yuque, call, sent, response, bodyReads, outcome, headers, pureVars>>
vars == <<codecVars, clientVars>>

NotFormatted == [format |-> "", via |-> "", depth |-> 0, text |-> ""]
NotConverted ==
  [detail |-> DocDetail(0, "", "", "", "", ""), form |-> "",
   res |-> [ok |-> FALSE, doc |-> NoDoc, id |-> 0, err |-> NoError]]
NotBuilt == [method |-> "", api |-> <<>>, data |-> NoBody, res |-> RequestErr(NoError)]

ClientOff ==
  /\ cpc = "off"
  /\ yuque = NoClient
  /\ call = NoCall
  /\ sent = <<>>
  /\ response = NoResponse
  /\ bodyReads = 0
  /\ outcome = NoOutcome
  /\ headers = NoHeadersYet
  /\ built = NotBuilt
  /\ converted = NotConverted
  /\ formatted = NotFormatted

Init ==
  /\ now \in LocalOffsets
  /\ \/ /\ pc = "value"
        /\ origin = "encoder"
        /\ value \in Values
        /\ wire = WireNull
     \/ /\ pc = "wire"
        /\ origin = "server"
        /\ value = NoValue
        /\ wire \in ServerWires
  /\ metaText = <<>>
  /\ tocText = <<>>
  /\ result = Pending
  /\ ClientOff

\* toc_serde::serialize
Serialize ==
  /\ pc = "value"
  /\ wire' = toc_serde_serialize(value)
  /\ pc' = "wire"
  /\ UNCHANGED <<origin, now, value, metaText, tocText, result>>
  /\ UNCHANGED clientVars

\* toc_serde::deserialize
Deserialize ==
  /\ pc = "wire"
  /\ metaText' = IF wire.null THEN <<>> ELSE MetaSection(wire.lines)
  /\ tocText' = IF wire.null THEN <<>> ELSE TocSection(wire.lines)
  /\ result' = toc_serde_deserialize(wire, now)
  /\ pc' = "done"
  /\ UNCHANGED <<origin, now, value, wire>>
  /\ UNCHANGED clientVars

Next == Serialize \/ Deserialize

Spec == Init /\ [][Next]_vars

\* --------------------------------------------------- client state machine
CodecOff ==
  /\ pc = "off"
  /\ origin = ""
  /\ now = 0
  /\ value = NoValue
  /\ wire = WireNull
  /\ metaText = <<>>
  /\ tocText = <<>>
  /\ result = Pending

InitClient ==
  /\ CodecOff
  /\ cpc = "idle"
  /\ yuque \in Clients
  /\ call = NoCall
  /\ sent = <<>>
  /\ response = NoResponse
  /\ bodyReads = 0
  /\ outcome = NoOutcome
  /\ headers = NoHeadersYet
  /\ built = NotBuilt
  /\ converted = NotConverted
  /\ formatted = NotFormatted

\* Yuque::generate_headers, called on its own
GenerateHeaders ==
  /\ cpc = "idle"
  /\ headers' = generate_headers(yuque)
  /\ cpc' = "generated"
  /\ UNCHANGED <<yuque, call, sent, response, bodyReads, outcome, pureVars>>
  /\ UNCHANGED codecVars

\* Yuque::get, Yuque::post, Yuque::put, Yuque::delete, called on their own:
\* get and delete hand request no data, post and put hand on what they got.
BuildRequest ==
  /\ cpc = "idle"
  /\ \E method \in {"Get", "Post", "Put", "Delete"},
        api \in {<<"/hello">>, <<"/repos/", "yuque/help">>},
        data \in {NoBody, SomeBody(<<"data">>)} :
       /\ method \in {"Get", "Delete"} => data = NoBody
       /\ built' = [method |-> method, api |-> api, data |-> data,
                    res |-> request(yuque, method, api, data)]
  /\ cpc' = "built"
  /\ UNCHANGED <<yuque, call, sent, response, bodyReads, outcome, headers>>
  /\ UNCHANGED <<converted, formatted>>
  /\ UNCHANGED codecVars

\* A fetched DocDetail is converted with try_into(), to a Doc or to (Doc, i32).
Convert ==
  /\ cpc = "idle"
  /\ \E detail \in DocDetails, form \in {"Doc", "Pair"} :
       converted' = [detail |-> detail, form |-> form,
                     res |-> IF form = "Doc" THEN try_from_Doc(detail)
                             ELSE try_from_Pair(detail)]
  /\ cpc' = "converted"
  /\ UNCHANGED <<yuque, call, sent, response, bodyReads, outcome, headers>>
  /\ UNCHANGED <<built, formatted>>
  /\ UNCHANGED codecVars

\* A YuqueFormat is turned into text by a conversion that matches on it:
\* into String (from a value or a reference), Display, the serde name.
FormatText ==
  /\ cpc = "idle"
  /\ \E f \in Formats, via \in {"String", "String by ref", "Display", "serde"} :
       formatted' =
         [format |-> f, via |-> via, depth |-> 1,
          text |-> CASE via = "String" -> FormatString(f)
                     [] via = "String by ref" -> FormatStringByRef(f)
                     [] via = "Display" -> FormatDisplay(f)
                     [] OTHER -> FormatWireName(f)]
  /\ cpc' = "formatted"
  /\ UNCHANGED <<yuque, call, sent, response, bodyReads, outcome, headers>>
  /\ UNCHANGED <<built, converted>>
  /\ UNCHANGED codecVars

\* From<YuqueFormat> for &str and From<&YuqueFormat> for &str are entered.
FormatIntoStr ==
  /\ cpc = "idle"
  /\ \E f \in Formats, via \in {"&str", "&str by ref"} :
       formatted' = [format |-> f, via |-> via, depth |-> 1, text |-> ""]
  /\ cpc' = "into_str"
  /\ UNCHANGED <<yuque, call, sent, response, bodyReads, outcome, headers>>
  /\ UNCHANGED <<built, converted>>
  /\ UNCHANGED codecVars

\* Their body is value.into() with &str as the target: Into<&str> is the
\* blanket impl over this very From, so the function calls itself.
FormatIntoStrAgain ==
  /\ cpc = "into_str"
  /\ formatted.depth < MaxStack
  /\ formatted' = [formatted EXCEPT !.depth = @ + 1]
  /\ UNCHANGED <<cpc, yuque, call, sent, response, bodyReads, outcome, headers>>
  /\ UNCHANGED <<built, converted>>
  /\ UNCHANGED codecVars

\* The next nested call no longer fits on the stack: the process aborts.
StackOverflow ==
  /\ cpc = "into_str"
  /\ formatted.depth = MaxStack
  /\ cpc' = "overflow"
  /\ UNCHANGED <<yuque, call, sent, response, bodyReads, outcome, headers>>
  /\ UNCHANGED pureVars
  /\ UNCHANGED codecVars

\* An operation of ReposClient or DocsClient, up to its first await: the
\* format test of update_with_repo, the path, the request, send().
Invoke ==
  /\ cpc = "idle"
  /\ \E c \in Calls :
       LET plan == Operation(c)
           req == request(yuque, plan.method, plan.api, plan.data)
       IN /\ call' = c
          /\ IF plan.reject # NoError
               THEN /\ outcome' = Failure(plan.reject)
                    /\ cpc' = "returned"
                    /\ sent' = sent
             ELSE IF ~req.ok
               THEN /\ outcome' = Failure(req.err)
                    /\ cpc' = "returned"
                    /\ sent' = sent
             ELSE IF ~req.v.url.absolute
               THEN /\ outcome' = Failure(FromReqwestError("builder"))
                    /\ cpc' = "returned"
                    /\ sent' = sent
             ELSE /\ sent' = Send(sent, WithQuery(req.v, plan.query))
                  /\ cpc' = "sending"
                  /\ outcome' = outcome
  /\ UNCHANGED <<yuque, response, bodyReads, headers, pureVars>>
  /\ UNCHANGED codecVars

\* The network: the request fails on the way, or the server answers.
Transport ==
  /\ cpc = "sending"
  /\ response' \in Responses
  /\ cpc' = "responded"
  /\ UNCHANGED <<yuque, call, sent, bodyReads, outcome, headers, pureVars>>
  /\ UNCHANGED codecVars

\* faulty variant: the body is read before the status is looked at
AfterSend_ReadFirst ==
  /\ cpc = "responded"
  /\ IF response.kind = "error"
       THEN outcome' = Failure(FromReqwestError("send")) /\ cpc' = "returned"
       ELSE outcome' = outcome /\ cpc' = "reading"
  /\ UNCHANGED <<yuque, call, sent, response, bodyReads, headers, pureVars>>
  /\ UNCHANGED codecVars

\* The operation after send().await: the ? on the transport error, then
\* judge_status_code and its ?; ReposClient::delete returns here.
AfterSend ==
  /\ cpc = "responded"
  /\ LET judged == judge_status_code(response.status, Operation(call).api)
     IN IF response.kind = "error"
          THEN outcome' = Failure(FromReqwestError("send")) /\ cpc' = "returned"
        ELSE IF ~judged.ok
          THEN outcome' = Failure(judged.err) /\ cpc' = "returned"
        ELSE IF ~Operation(call).json
          THEN outcome' = Success /\ cpc' = "returned"
        ELSE outcome' = outcome /\ cpc' = "reading"
  /\ UNCHANGED <<yuque, call, sent, response, bodyReads, headers, pureVars>>
  /\ UNCHANGED codecVars

\* The operation after response.json().await
AfterJson ==
  /\ cpc = "reading"
  /\ bodyReads' = bodyReads + 1
  /\ outcome' = ReadJson(response.body)
  /\ cpc' = "returned"
  /\ UNCHANGED <<yuque, call, sent, response, headers, pureVars>>
  /\ UNCHANGED codecVars

NextClient ==
  \/ GenerateHeaders \/ BuildRequest \/ Convert
  \/ FormatText \/ FormatIntoStr \/ FormatIntoStrAgain \/ StackOverflow
  \/ Invoke \/ Transport \/ AfterSend \/ AfterJson

SpecClient == InitClient /\ [][NextClient]_vars

\* ------------------------------------------------------------- properties
Done == pc = "done"
Encoded == origin = "encoder" /\ value.some
Links == {"prev_uuid", "sibling_uuid", "child_uuid", "parent_uuid"}

\* The records of the entries block as the decoder was handed them.
EntryRecords == YamlSeq(tocText).v

\* C1: round trip. Decoding what the encoder wrote for a present TOC
\* succeeds and returns a TOC equal to the one encoded, field for field.
C1_RoundTrip ==
  (Done /\ Encoded) => (result.kind = "Some" /\ result.toc = value.toc)

\* C2: split invariant. Whatever the wire string holds, the metadata parser
\* is handed its first 9 lines (all of them when there are fewer) and the
\* entries parser the lines after them, in order; a well-formed 9-line
\* metadata block with nothing after it decodes to that metadata and an
\* empty entry list.
C2_SplitInvariant ==
  (Done /\ ~wire.null) =>
    /\ Len(metaText) = (IF Len(wire.lines) < 9 THEN Len(wire.lines) ELSE 9)
    /\ metaText \o tocText = wire.lines
    /\ \A m \in MetaPool :
         wire.lines = UpstreamMeta(m) =>
           result = Returned(TRUE,
                             Toc([m EXCEPT !.last_updated_at = DateTime(@.naive, now)],
                                 <<>>))

C2_Witness ==
  /\ Done
  /\ Len(wire.lines) > 9
  /\ Len(tocText) > 0
  /\ result.kind = "Some"
  /\ Len(result.toc.toc) = 2

\* C3: discriminator exhaustiveness. A decode that succeeds has only DOC-
\* and TITLE-tagged records in its entries block, decoded to Doc and Title
\* respectively; a record with any other tag makes the decode fail.
C3_Discriminator ==
  (Done /\ ~wire.null /\ YamlSeq(tocText).ok) =>
    /\ result.kind = "Some" =>
         \A i \in 1..Len(EntryRecords) :
           \/ FirstTag(EntryRecords[i]) = W("DOC")
                /\ result.toc.toc[i].variant = "Doc"
           \/ FirstTag(EntryRecords[i]) = W("TITLE")
                /\ result.toc.toc[i].variant = "Title"
    /\ (\E i \in 1..Len(EntryRecords) :
          /\ TagLines(EntryRecords[i]) # {}
          /\ FirstTag(EntryRecords[i]) \notin {W("DOC"), W("TITLE")})
         => result.kind # "Some"

\* C4: missing metadata. When the first 9 lines parse as an empty list the
\* decoder returns an error value.
C4_MetadataMissing ==
  (Done /\ ~wire.null /\ YamlSeq(metaText) = Ok(<<>>)) => result.kind = "Err"

\* C5: no input makes the decoder panic; it returns a TOC or an error.
C5_NoPanic == Done => result.kind \in {"Some", "None", "Err"}

\* C6: absent TOC. Encoding no TOC writes null, never an empty string, and
\* decoding null returns no TOC rather than an error.
C6_AbsentToc ==
  /\ (pc # "value" /\ origin = "encoder" /\ ~value.some) => wire = WireNull
  /\ (Done /\ wire.null) => result.kind = "None"

\* C7: encoder layout. For a present TOC the wire string is the text of the
\* one-element metadata list, one newline, and the text of the entry list.
C7_EncoderLayout ==
  (pc # "value" /\ Encoded) =>
    /\ ~wire.null
    /\ wire.lines = to_string_meta(<<value.toc.meta>>)
                      \o <<BlankLine>> \o to_string_toc(value.toc.toc)

C7_Witness ==
  /\ pc = "wire"
  /\ Encoded
  /\ Len(value.toc.toc) = 2
  /\ Len(wire.lines) = 7 + 1 + 26

\* C8: boundary agreement. For every present TOC the decoder's metadata
\* section is exactly the metadata block the encoder wrote, and its entries
\* section exactly the encoder's entries block.
C8_BoundaryAgreement ==
  (Done /\ Encoded) =>
    /\ NonBlank(metaText) = to_string_meta(<<value.toc.meta>>)
    /\ NonBlank(tocText) = to_string_toc(value.toc.toc)

\* C9: link sentinel. After encode and decode every entry's link field is
\* empty exactly when it was empty before.
C9_LinkSentinel ==
  (Done /\ Encoded) =>
    /\ result.kind = "Some"
    /\ Len(result.toc.toc) = Len(value.toc.toc)
    /\ \A i \in 1..Len(value.toc.toc) : \A f \in Links :
         (result.toc.toc[i][f] = EmptyStr) <=> (value.toc.toc[i][f] = EmptyStr)

\* C10: order preservation. On a successful decode the i-th entry returned
\* is the decoding of the i-th record of the entries block.
C10_OrderPreserved ==
  (Done /\ result.kind = "Some") =>
    /\ Len(result.toc.toc) = Len(EntryRecords)
    /\ \A i \in 1..Len(EntryRecords) :
         /\ TagOf(result.toc.toc[i].variant) = FirstTag(EntryRecords[i])
         /\ result.toc.toc[i].variant # "Meta" =>
              /\ result.toc.toc[i].uuid = Get(EntryRecords[i], "uuid").x
              /\ result.toc.toc[i].title = Get(EntryRecords[i], "title").x
              /\ result.toc.toc[i].parent_uuid = Get(EntryRecords[i], "parent_uuid").x

C10_Witness ==
  /\ Done
  /\ result.kind = "Some"
  /\ Len(result.toc.toc) = 2
  /\ result.toc.toc[1].uuid # result.toc.toc[2].uuid

\* The metadata parse failed: the text is no sequence of mappings, or one of
\* its records is no TocMeta.
MetaFails(ls) ==
  \/ ~YamlSeq(ls).ok
  \/ \E i \in 1..Len(YamlSeq(ls).v) : StructError(YamlSeq(ls).v[i], TocMetaTypes, TRUE) # ""

\* The entries parse would fail: likewise for the entries text.
EntriesFail(ls) ==
  \/ ~YamlSeq(ls).ok
  \/ \E i \in 1..Len(YamlSeq(ls).v) : TaggedError(YamlSeq(ls).v[i]) # ""

ProbeWires == {ReplaceAt(BaseLines, 3, JunkLine), ReplaceAt(BaseLines, 9 + 3, JunkLine)}

\* C12: every error the decoder returns tells which block failed: the error
\* returned for the line unreadable in one block is not the error returned
\* for it in the other block.
C12_ErrorNamesBlock ==
  (Done /\ ~wire.null /\ wire.lines \in ProbeWires /\ result.kind = "Err") =>
    \A w \in ProbeWires :
      toc_serde_deserialize(WireStr(w), now) = result
        => (MetaFails(MetaSection(w)) <=> MetaFails(metaText))

\* C13: scenario A decodes to count 2 and two entries, the second naming the
\* first as its parent.
C13_ScenarioA ==
  (Done /\ wire = WireStr(ScenarioA)) =>
    /\ result.kind = "Some"
    /\ result.toc.meta.count = Num(2)
    /\ Len(result.toc.toc) = 2
    /\ result.toc.toc[2].parent_uuid = result.toc.toc[1].uuid

C13_Witness == Done /\ wire = WireStr(ScenarioA) /\ result.msg = ""

\* The records of the metadata block as the decoder was handed them.
MetaRecords == YamlSeq(metaText).v

\* Some line of the record fills a boolean field with something that is no
\* boolean literal, or a numeric field with something that is no number.
WrongShape(rec, types) ==
  \E i \in 1..Len(rec) :
    /\ rec[i].key \in DOMAIN types
    /\ \/ types[rec[i].key] = "bool" /\ (rec[i].val.q \/ rec[i].val.x.t # "bool")
       \/ types[rec[i].key] = "u32" /\ (rec[i].val.q \/ rec[i].val.x.t # "int")

\* Scenario B of the specification: published: "yes"
ScenarioB == ReplaceAt(BaseLines, 6, [BaseLines[6] EXCEPT !.val = Quoted(W("yes"))])

\* C14: no silent coercion. A metadata record whose published is no boolean
\* literal, or any record with a non-number in a numeric field, makes the
\* decode fail; scenario B fails with a type error.
C14_NoCoercion ==
  (Done /\ ~wire.null) =>
    /\ (YamlSeq(metaText).ok
          /\ \E i \in 1..Len(MetaRecords) : WrongShape(MetaRecords[i], TocMetaTypes))
         => result.kind = "Err"
    /\ result.kind = "Some" =>
         \A i \in 1..Len(EntryRecords) :
           ~WrongShape(EntryRecords[i], VariantTypes(TocVariant(FirstTag(EntryRecords[i]))))
    /\ wire.lines = ScenarioB => result = Failed("invalid type")

C14_Witness == Done /\ wire = WireStr(ScenarioB) /\ result.kind = "Err"

\* Some line of the record fills a numeric field with a number below 0 or
\* above 2^32 - 1.
OutOfRange(rec, types) ==
  \E i \in 1..Len(rec) :
    /\ rec[i].key \in DOMAIN types
    /\ types[rec[i].key] = "u32"
    /\ ~rec[i].val.q
    /\ rec[i].val.x.t = "int"
    /\ (rec[i].val.x.n < 0 \/ rec[i].val.x.n > 65535)

NumericMeta == {"count", "base_version_id", "max_level", "version_id"}
NumericEntry == {"level", "open_window", "visible"}

\* C15: numeric fields take exactly 0 .. 2^32 - 1. A number outside the range
\* makes the decode fail; on success every numeric field holds the number
\* written; every well-formed wire string, u32::MAX in it or not, decodes.
C15_U32Range ==
  (Done /\ ~wire.null) =>
    /\ (YamlSeq(metaText).ok
          /\ \E i \in 1..Len(MetaRecords) : OutOfRange(MetaRecords[i], TocMetaTypes))
         => result.kind = "Err"
    /\ result.kind = "Some" =>
         /\ \A f \in NumericMeta :
              result.toc.meta[f] = NumOf(Get(MetaRecords[Len(MetaRecords)], f).x)
         /\ \A i \in 1..Len(EntryRecords) :
              LET rec == EntryRecords[i]
                  e == result.toc.toc[i]
              IN /\ ~OutOfRange(rec, VariantTypes(TocVariant(FirstTag(rec))))
                 /\ e.variant # "Meta" =>
                      \A f \in NumericEntry : e[f] = NumOf(Get(rec, f).x)
                 /\ e.variant = "Doc" =>
                      \A f \in {"doc_id", "id"} : e[f] = NumOf(Get(rec, f).x)
    /\ wire.lines \in ValidWires => result.kind = "Some"

C15_Witness ==
  /\ Done
  /\ result.kind = "Some"
  /\ result.toc.meta.version_id = NumOf(IntLimbs(65535, 65535))
  /\ Len(result.toc.toc) > 0

\* C16: decode is a function of the wire string alone: in whatever time zone
\* the process runs, the same string decodes to the same result.
C16_DecodePure ==
  Done => \A zone \in LocalOffsets : toc_serde_deserialize(wire, zone) = result

\* C17: a decoded TOC holds one metadata record and its entry list holds Doc
\* and Title elements only, never a Meta.
C17_NoMetaEntry ==
  (Done /\ result.kind = "Some") =>
    /\ result.toc.meta # NoMeta
    /\ \A i \in 1..Len(result.toc.toc) : result.toc.toc[i].variant \in {"Doc", "Title"}

\* ------------------------------------------------------ client properties
Classified == {400, 401, 403, 404, 500}
StatusErrors ==
  {"InvalidParams", "InvalidUserInfo", "NoPermission", "NotFound", "ServerException"}

\* C18: on a client built with no explicit user agent and a token that is a
\* valid header value, generate_headers returns a map with X-Auth-Token the
\* token and User-Agent "@yuque/sdk"; a token or user agent that is no valid
\* header value gives an Internal error and no map.
C18_GenerateHeaders ==
  cpc = "generated" =>
    /\ (ParseHeaderValue(yuque.token).ok
          /\ yuque \in {Yuque(t, h, NoAgent) : t \in Tokens, h \in Hosts}) =>
         /\ headers.ok
         /\ headers.v[HeaderName("X-Auth-Token")] = yuque.token
         /\ headers.v[HeaderName("User-Agent")] =
              <<64, 121, 117, 113, 117, 101, 47, 115, 100, 107>>
    /\ (~ParseHeaderValue(yuque.token).ok \/ ~ParseHeaderValue(yuque.user_agent).ok) =>
         /\ ~headers.ok
         /\ headers.err.variant = "Internal"
         /\ headers.v = NoHeaders

C18_Witness ==
  /\ cpc = "generated"
  /\ headers.ok
  /\ yuque.token = Token
  /\ yuque.user_agent = DEFAULT_USER_AGENT

\* C19: an operation sends at most one request, and what fails first (the
\* transport, the status, reading the body) is what it returns, with no
\* further request.
C19_NoRetry ==
  /\ Len(sent) <= 1
  /\ bodyReads <= 1
  /\ cpc = "returned" =>
       /\ response.kind = "error" =>
            outcome = Failure(FromReqwestError("send")) /\ Len(sent) = 1
       /\ (response.kind = "status" /\ response.status \in Classified) =>
            outcome.kind = "Err" /\ bodyReads = 0 /\ Len(sent) = 1
       /\ (bodyReads = 1 /\ response.body # "json") =>
            outcome.kind = "Err" /\ outcome.err.variant = "Request" /\ Len(sent) = 1
       /\ outcome.kind = "Ok" => Len(sent) = 1

C19_Witness ==
  /\ cpc = "returned"
  /\ response.kind = "error"
  /\ outcome.kind = "Err"
  /\ Len(sent) = 1

\* C20: 400, 401, 403, 404 and 500 become InvalidParams, InvalidUserInfo,
\* NoPermission, NotFound and ServerException with the request path; every
\* other status code passes.
C20_StatusClassification ==
  /\ (cpc \in {"reading", "returned"} /\ response.kind = "status") =>
       LET path == Operation(call).api
       IN /\ response.status = 400 => outcome = Failure(YuqueError("InvalidParams", path))
          /\ response.status = 401 => outcome = Failure(YuqueError("InvalidUserInfo", path))
          /\ response.status = 403 => outcome = Failure(YuqueError("NoPermission", path))
          /\ response.status = 404 => outcome = Failure(YuqueError("NotFound", path))
          /\ response.status = 500 => outcome = Failure(YuqueError("ServerException", path))
          /\ response.status \notin Classified => outcome.err.variant \notin StatusErrors
          /\ (response.status \notin Classified /\ ~Operation(call).json) =>
               outcome = Success
  /\ cpc = "generated" =>
       \A s \in 0..U16Max :
         judge_status_code(s, <<"/">>).ok <=> s \notin Classified

C20_Witness ==
  /\ cpc = "returned"
  /\ response.kind = "status"
  /\ response.status = 429
  /\ outcome = Success

\* What a request built for (method, api, data) on the client y must look like.
WellBuilt(y, r, method, api, data) ==
  /\ r.method = method
  /\ r.url.text = <<y.host.text>> \o api
  /\ r.headers[HeaderName("X-Auth-Token")] = y.token
  /\ r.headers[HeaderName("User-Agent")] = y.user_agent
  /\ method \in {"Post", "Put"} =>
       /\ HeaderName("Content-Type") \in DOMAIN r.headers
       /\ r.headers[HeaderName("Content-Type")] =
            <<97, 112, 112, 108, 105, 99, 97, 116, 105, 111, 110, 47, 106, 115, 111, 110>>
       /\ r.body = data
  /\ method \in {"Get", "Delete"} =>
       /\ ~r.body.some
       /\ HeaderName("Content-Type") \notin DOMAIN r.headers

\* C21: every request built targets host ++ api with the X-Auth-Token and
\* User-Agent headers; POST and PUT also carry Content-Type application/json
\* and a body exactly when data is given; GET and DELETE carry neither.
C21_RequestConstruction ==
  /\ (cpc = "built" /\ built.res.ok) =>
       WellBuilt(yuque, built.res.v, built.method, built.api, built.data)
  /\ \A i \in 1..Len(sent) :
       WellBuilt(yuque, sent[i], Operation(call).method, Operation(call).api,
                 Operation(call).data)

C21_Witness ==
  /\ cpc = "built"
  /\ built.res.ok
  /\ built.method = "Post"
  /\ ~built.data.some
  /\ ~built.res.v.body.some

\* C22: send, then classify the status, then parse the body. A body is read
\* only after a request went out and its status passed; a classified status
\* returns its error with the body unread; ReposClient::delete never reads
\* the body and returns success on any status that passes.
C22_StepOrder ==
  /\ (bodyReads > 0 \/ cpc = "reading") =>
       /\ Len(sent) = 1
       /\ response.kind = "status"
       /\ response.status \notin Classified
  /\ (cpc = "returned" /\ response.kind = "status" /\ response.status \in Classified) =>
       /\ outcome.kind = "Err"
       /\ outcome.err.variant \in StatusErrors
       /\ outcome.err.detail = Operation(call).api
       /\ bodyReads = 0
  /\ call.op = "repos.delete" =>
       /\ bodyReads = 0
       /\ cpc # "reading"
       /\ (cpc = "returned" /\ response.kind = "status"
             /\ response.status \notin Classified) => outcome = Success

C22_Witness ==
  /\ cpc = "returned"
  /\ call.op = "repos.delete"
  /\ response.kind = "status"
  /\ response.status = 200
  /\ response.body = "text"
  /\ outcome = Success
  /\ bodyReads = 0

\* C23: update_with_repo with a Lake or Html document returns
\* NotSupportFormat and sends nothing; with a Markdown document, on a client
\* whose headers and host are usable, it sends exactly one PUT to
\* /repos/{namespace}/docs/{id}.
C23_UpdateFormatGate ==
  call.op = "docs.update_with_repo" =>
    /\ call.format = "Lake" =>
         /\ cpc = "returned"
         /\ outcome = Failure(YuqueError("NotSupportFormat", <<"lake">>))
         /\ sent = <<>>
    /\ call.format = "Html" =>
         /\ cpc = "returned"
         /\ outcome = Failure(YuqueError("NotSupportFormat", <<"html">>))
         /\ sent = <<>>
    /\ call.format = "Markdown" =>
         /\ Len(sent) <= 1
         /\ \A i \in 1..Len(sent) :
              /\ sent[i].method = "Put"
              /\ sent[i].url.text =
                   <<yuque.host.text, "/repos/", call.name, "/docs/", ToString(call.id)>>
         /\ (generate_headers(yuque).ok /\ yuque.host.absolute) => Len(sent) = 1

C23_Witness ==
  /\ call.op = "docs.update_with_repo"
  /\ call.format = "Lake"
  /\ cpc = "returned"
  /\ outcome.err.variant = "NotSupportFormat"
  /\ sent = <<>>

\* C24: a DocDetail converts to a Doc, or to a (Doc, id) pair, exactly when
\* its format is Markdown; title, slug, format and body are then copied and
\* the pair holds the detail's id. Lake and Html give NotSupportFormat with
\* the format's name, and no Doc.
C24_DocConversion ==
  cpc = "converted" =>
    LET d == converted.detail
        r == converted.res
    IN /\ r.ok <=> d.format = "Markdown"
       /\ r.ok =>
            /\ r.doc.title = d.title
            /\ r.doc.slug = d.slug
            /\ r.doc.format = d.format
            /\ r.doc.body = d.body
            /\ converted.form = "Pair" => r.id = d.id
       /\ d.format = "Lake" =>
            r.err = YuqueError("NotSupportFormat", <<"lake">>) /\ r.doc = NoDoc
       /\ d.format = "Html" =>
            r.err = YuqueError("NotSupportFormat", <<"html">>) /\ r.doc = NoDoc

C24_Witness ==
  /\ cpc = "converted"
  /\ converted.form = "Pair"
  /\ converted.detail.format = "Markdown"
  /\ converted.res.ok
  /\ converted.res.id = 7

\* C25: the decoded timestamp shows the wall-clock reading written in the
\* input, whatever offset the input carried, with the local zone's current
\* offset attached; a last_updated_at that is no RFC 3339 text is an error.
C25_WallClockKept ==
  (Done /\ ~wire.null) =>
    /\ result.kind = "Some" =>
         LET written == Get(MetaRecords[Len(MetaRecords)], "last_updated_at").x
         IN /\ written.t = "time"
            /\ result.toc.meta.last_updated_at.naive = written.n
            /\ result.toc.meta.last_updated_at.off = now
    /\ (YamlSeq(metaText).ok
          /\ \E i \in 1..Len(MetaRecords) : \E j \in 1..Len(MetaRecords[i]) :
               /\ MetaRecords[i][j].key = "last_updated_at"
               /\ MetaRecords[i][j].val.x.t # "time")
         => result.kind = "Err"

C25_Witness ==
  /\ Done
  /\ result.kind = "Some"
  /\ Get(MetaRecords[Len(MetaRecords)], "last_updated_at").x.o = 8
  /\ now = 0
  /\ result.toc.meta.last_updated_at = DateTime(10, 0)

\* C26: every conversion of a YuqueFormat to text returns, and returns
\* "lake" for Lake, "markdown" for Markdown, "html" for Html.
C26_FormatText ==
  /\ cpc # "overflow"
  /\ cpc \in {"formatted", "into_str"} =>
       /\ formatted.depth <= 1
       /\ cpc = "formatted" =>
            /\ formatted.format = "Lake" => formatted.text = "lake"
            /\ formatted.format = "Markdown" => formatted.text = "markdown"
            /\ formatted.format = "Html" => formatted.text = "html"

====
